---- MODULE Spec2Model ----
(***************************************************************************)
(* Hit-and-run sampling of a flux polytope with an MCMC acceptance layer:  *)
(* cobra/sampling/hr_sampler.py (HRSampler, step) and                      *)
(* cobra/sampling/mcmc.py (MCMCACHRSampler).                               *)
(*                                                                         *)
(* Numbers.  The program computes in floating point.  The model computes   *)
(* in fixed point: the integer k stands for the real k / SCALE, products   *)
(* and quotients are rounded toward zero (Quot).  The tolerance            *)
(* model.tolerance is one unit of that grid.  A vector is a tuple, a       *)
(* matrix a tuple of rows, Python's None is the empty tuple.               *)
(***************************************************************************)
EXTENDS Integers, Sequences, FiniteSets, TLC

(***************************************************************************)
(* Bounds of the model.                                                    *)
(***************************************************************************)
\* the fixed-point unit: the integer SCALE stands for 1.0
SCALE == 4
\* variable bounds of the modelled problems are [0, MaxFlux]
MaxFlux == 6
\* a direction handed to step has components in -MaxDelta .. MaxDelta
MaxDelta == 3
\* a sampler runs at most MaxSamples internal iterations in all, and is not
\* called again once it has
MaxSamples == 2
\* sample is called with n in 0 .. MaxN
MaxN == 2
\* the thinning factor and nproj of a sampler are in 1 .. MaxThinning, 1 .. MaxNproj
MaxThinning == 2
MaxNproj == 2
\* in Spec the counter retries stays within MaxRetries
MaxRetries == 2
\* the entries of a sample handed to validate are in -MaxViol .. MaxFlux + MaxViol
MaxViol == 11
\* log(u) of the Metropolis test is in -MaxNegLogU .. -1
MaxNegLogU == 4
\* redundancy removal is given MaxRows rows
MaxRows == 3
\* the generator has RngMod states, samplers are seeded with 0 .. MaxSeed, and
\* an instance is given at most MaxCalls calls sample(n) with n in 0 .. MaxPairN
RngMod == 16
MaxSeed == 1
MaxCalls == 2
MaxPairN == 2
\* the runs that end in a fatal error make at most MaxFatalSamples iterations
MaxFatalSamples == 3

(***************************************************************************)
(* Program constants.                                                      *)
(***************************************************************************)
MAX_TRIES == 100
\* the attempts of the validity search of __single_iteration
nmax == 10
\* model.tolerance, which the sampler uses as feasibility_tol and bounds_tol
tolerance == 1
feasibility_tol == tolerance
bounds_tol == tolerance

None == <<>>

VARIABLES
    \* the sampler object
    problem, warmup, n_warmup, center, prev, n_samples, retries,
    thinning, nproj, bestSample,
    \* control: where the program is, and the exception that ended it
    pc, err,
    \* one call of step: its arguments and its result
    x, delta, fraction, tries, p,
    \* one call of sample: its arguments, its locals, the table it returns and
    \* the acceptance rate it prints (a pair numerator, denominator)
    n, likelihood, prior, i, lockCenter, previousPosterior, savePrev,
    totalSamples, rejections, samples, rate, fluxes, table,
    \* history: the value of retries when step was called from outside
    retries0,
    \* history of the current sample call: for every iteration made, prev at
    \* its end and whether it was accepted; prev as __single_iteration left it
    \* and the center a running mean would have produced; the point accepted
    \* last; what the Metropolis test of the last iteration did
    hist, iterPrev, iterCenter, lastAccepted, decision,
    \* history of the sampler: the (posterior, point) pairs accepted so far,
    \* and the number of points the center update has averaged into center
    accepted, averaged,
    \* history: the value of n_samples when sample was called
    n_samples0,
    \* the model the sampler copied: its reactions, and the points its
    \* optimizer can return
    model,
    \* one call of generate_fva_warmup: its argument, the loop position and
    \* the objective coefficients of the model, one per variable
    includeReversible, sense, ri, objective,
    \* history: the optimizer invocations of the last loop body, each with the
    \* reaction optimized and the objective coefficients at the invocation
    solved,
    \* one call of validate: its arguments, the tolerances it stores on the
    \* sampler and the codes it returns
    vSamples, vFeasTol, vBoundsTol, val_feasibility_tol, val_bounds_tol, codes,
    \* the validity search of __single_iteration: the argument validatecheck
    \* of the sample calls and the loop counter
    validatecheck, counter,
    \* two sampler instances of one process: the state of numpy's global
    \* generator, the instances, and as history what each instance would be
    \* with a generator of its own
    rng, walkers, alone,
    \* one redundancy removal done twice: the rows, an order to hand them over
    \* in, and the rows retained from the rows as given and as reordered
    collected, order, kept, keptPermuted

samplerVars == <<problem, warmup, n_warmup, center, prev, n_samples, retries,
                 thinning, nproj, bestSample>>
stepVars == <<x, delta, fraction, tries, p>>
callVars == <<n, likelihood, prior, i, lockCenter, previousPosterior, savePrev,
              totalSamples, rejections, samples, rate, fluxes, table>>
histVars == <<hist, iterPrev, iterCenter, lastAccepted, decision, accepted,
              averaged, n_samples0>>
fvaVars == <<model, includeReversible, sense, ri, objective, solved>>
validateVars == <<vSamples, vFeasTol, vBoundsTol, val_feasibility_tol,
                  val_bounds_tol, codes>>
filterVars == <<collected, order, kept, keptPermuted>>
searchVars == <<validatecheck, counter>>
pairVars == <<rng, walkers, alone>>
restVars == <<filterVars, searchVars, pairVars>>
otherVars == <<fvaVars, validateVars, restVars>>
vars == <<samplerVars, pc, err, stepVars, callVars, retries0, histVars, otherVars>>

(***************************************************************************)
(* Arithmetic.                                                             *)
(***************************************************************************)
Abs(a) == IF a < 0 THEN -a ELSE a

Min2(a, b) == IF a <= b THEN a ELSE b

Max2(a, b) == IF a >= b THEN a ELSE b

SetMin(S) == CHOOSE m \in S : \A s \in S : m <= s

SetMax(S) == CHOOSE m \in S : \A s \in S : m >= s

\* a / b rounded toward zero, b # 0
Quot(a, b) ==
    IF (a >= 0) = (b > 0) THEN Abs(a) \div Abs(b) ELSE -(Abs(a) \div Abs(b))

RECURSIVE SumTo(_, _)
SumTo(f, k) == IF k = 0 THEN 0 ELSE f[k] + SumTo(f, k - 1)

\* the sum of a tuple of numbers
Sum(f) == SumTo(f, Len(f))

\* numpy's dot of a row of real coefficients with a vector
Dot(row, v) == Sum([k \in 1..Len(v) |-> row[k] * v[k]])

VecSub(u, v) == [k \in 1..Len(u) |-> u[k] - v[k]]

(***************************************************************************)
(* _bounds_dist: the smallest distance to a lower and to an upper bound,   *)
(* over the variables and, when there are inequality rows, over the rows.  *)
(***************************************************************************)
bounds_dist_no_rows(prob, q) ==
    <<SetMin({q[k] - prob.variable_bounds[1][k] : k \in 1..Len(q)}),
      SetMin({prob.variable_bounds[2][k] - q[k] : k \in 1..Len(q)})>>

bounds_dist(prob, q) ==
    LET lb_dist == SetMin({q[k] - prob.variable_bounds[1][k] : k \in 1..Len(q)})
        ub_dist == SetMin({prob.variable_bounds[2][k] - q[k] : k \in 1..Len(q)})
        rows == 1..Len(prob.inequalities)
        const == [r \in rows |-> Dot(prob.inequalities[r], q)]
    IN  IF Len(prob.bounds[1]) > 0
        THEN <<Min2(lb_dist, SetMin({const[r] - prob.bounds[1][r] : r \in rows})),
               Min2(ub_dist, SetMin({prob.bounds[2][r] - const[r] : r \in rows}))>>
        ELSE <<lb_dist, ub_dist>>

(***************************************************************************)
(* step, lines 752-790: the feasible interval of alpha and the candidate.  *)
(***************************************************************************)
\* (1.0 - bounds_tol) * bound
Tighten(bnd) == Quot((SCALE - bounds_tol) * bnd, SCALE)

\* the permissible alphas for staying in the variable bounds
Valphas(prob, xx, dd) ==
    LET valid == {k \in 1..Len(dd) :
                     Abs(dd[k]) > feasibility_tol /\ ~prob.variable_fixed[k]}
    IN  {Quot((Tighten(prob.variable_bounds[s][k]) - xx[k]) * SCALE, dd[k]) :
            s \in {1, 2}, k \in valid}

\* the permissible alphas for staying in the constraint bounds
Balphas(prob, xx, dd) ==
    LET ineqs == [r \in 1..Len(prob.inequalities) |-> Dot(prob.inequalities[r], dd)]
        valid == {r \in 1..Len(prob.inequalities) : Abs(ineqs[r]) > feasibility_tol}
    IN  {Quot((Tighten(prob.bounds[s][r]) - Dot(prob.inequalities[r], xx)) * SCALE,
              ineqs[r]) : s \in {1, 2}, r \in valid}

Alphas(prob, xx, dd) ==
    IF Len(prob.bounds[1]) > 0
    THEN Valphas(prob, xx, dd) \cup Balphas(prob, xx, dd)
    ELSE Valphas(prob, xx, dd)

AlphaRange(prob, xx, dd) ==
    LET alphas == Alphas(prob, xx, dd)
        pos_alphas == {a \in alphas : a > 0}
        neg_alphas == {a \in alphas : a <= 0}
    IN  <<IF neg_alphas # {} THEN SetMax(neg_alphas) ELSE 0,
          IF pos_alphas # {} THEN SetMin(pos_alphas) ELSE 0>>

\* Python's truth value of the argument fraction: None and 0 are false
Truthy(fr) == fr # None /\ fr[1] # 0

\* the values alpha can take: the interpolation, or a uniform draw
AlphaChoices(range, fr) ==
    IF Truthy(fr)
    THEN {range[1] + Quot(fr[1] * (range[2] - range[1]), SCALE)}
    ELSE range[1]..range[2]

\* p = x + alpha * delta
Candidate(xx, alpha, dd) == [k \in 1..Len(xx) |-> xx[k] + Quot(alpha * dd[k], SCALE)]

\* np.abs(np.abs(alpha_range).max() * delta).max() < bounds_tol
Stuck(range, dd) ==
    LET widest == Max2(Abs(range[1]), Abs(range[2]))
    IN  SetMax({Abs(Quot(widest * dd[k], SCALE)) : k \in 1..Len(dd)}) < bounds_tol

\* the condition of line 795: the candidate is out of bounds, or we got stuck
Unstable(prob, q, range, dd) ==
    \/ bounds_dist(prob, q)[1] < -bounds_tol
    \/ bounds_dist(prob, q)[2] < -bounds_tol
    \/ Stuck(range, dd)

\* the guard of the raise at line 799
TriesExhausted(t) == t > MAX_TRIES

(***************************************************************************)
(* step: one activation of the function body.  It returns the candidate,   *)
(* or counts a retry and calls itself from the center, or raises.          *)
(***************************************************************************)
StepReturn ==
    /\ pc = "step"
    /\ LET range == AlphaRange(problem, x, delta)
       IN  \E alpha \in AlphaChoices(range, fraction) :
              /\ ~Unstable(problem, Candidate(x, alpha, delta), range, delta)
              /\ p' = Candidate(x, alpha, delta)
    /\ pc' = "stepped"
    /\ UNCHANGED <<samplerVars, err, x, delta, fraction, tries, retries0,
                   callVars, histVars, otherVars>>

\* a retry that is not counted
StepRetryUncounted ==
    /\ pc = "step"
    /\ LET range == AlphaRange(problem, x, delta)
       IN  \E alpha \in AlphaChoices(range, fraction) :
              Unstable(problem, Candidate(x, alpha, delta), range, delta)
    /\ ~TriesExhausted(tries)
    /\ \E k \in 1..n_warmup :
          /\ x' = center
          /\ delta' = VecSub(warmup[k], center)
    /\ retries' = retries
    /\ fraction' = None
    /\ tries' = tries + 1
    /\ UNCHANGED <<problem, warmup, n_warmup, center, prev, n_samples,
                   thinning, nproj, bestSample, pc, err, p, retries0,
                   callVars, histVars, otherVars>>

StepRetry ==
    /\ pc = "step"
    /\ LET range == AlphaRange(problem, x, delta)
       IN  \E alpha \in AlphaChoices(range, fraction) :
              Unstable(problem, Candidate(x, alpha, delta), range, delta)
    /\ ~TriesExhausted(tries)
    /\ \E k \in 1..n_warmup :
          /\ x' = center
          /\ delta' = VecSub(warmup[k], center)
    /\ retries' = retries + 1
    /\ fraction' = None
    /\ tries' = tries + 1
    /\ UNCHANGED <<problem, warmup, n_warmup, center, prev, n_samples,
                   thinning, nproj, bestSample, pc, err, p, retries0,
                   callVars, histVars, otherVars>>

StepRaise ==
    /\ pc = "step"
    /\ LET range == AlphaRange(problem, x, delta)
       IN  \E alpha \in AlphaChoices(range, fraction) :
              Unstable(problem, Candidate(x, alpha, delta), range, delta)
    /\ TriesExhausted(tries)
    /\ pc' = "raised"
    /\ err' = "RuntimeError"
    /\ UNCHANGED <<samplerVars, stepVars, retries0, callVars, histVars, otherVars>>

step == StepReturn \/ StepRetry \/ StepRaise

(***************************************************************************)
(* __build_problem.  raw is what constraint_matrices returns (its bounds   *)
(* already transposed: row 1 the lower, row 2 the upper bounds) together   *)
(* with what nullspace returns for the final equalities: an orthogonal     *)
(* basis, each column given as an integer vector and its squared norm.     *)
(***************************************************************************)
IndexSeq(m) == [k \in 1..m |-> k]

FixedNonZero(raw) ==
    LET fixed_non_zero(k) ==
            /\ Abs(raw.variable_bounds[2][k]) > feasibility_tol
            /\ raw.variable_fixed[k]
    IN  SelectSeq(IndexSeq(Len(raw.variable_fixed)), fixed_non_zero)

build_problem(raw) ==
    LET nvars == Len(raw.variable_fixed)
        fnz == FixedNonZero(raw)
        rows == [r \in 1..Len(fnz) |-> [k \in 1..nvars |-> IF k = fnz[r] THEN 1 ELSE 0]]
        var_b == [r \in 1..Len(fnz) |-> raw.variable_bounds[2][fnz[r]]]
    IN  [equalities |-> IF Len(fnz) > 0 THEN raw.equalities \o rows ELSE raw.equalities,
         b |-> IF Len(fnz) > 0 THEN raw.b \o var_b ELSE raw.b,
         inequalities |-> raw.inequalities,
         bounds |-> raw.bounds,
         variable_fixed |-> raw.variable_fixed,
         variable_bounds |-> raw.variable_bounds,
         nullspace |-> raw.nullspace,
         homogeneous |-> IF Len(fnz) > 0 THEN FALSE
                         ELSE \A r \in 1..Len(raw.b) : Abs(raw.b[r]) < feasibility_tol]

(***************************************************************************)
(* _is_redundant: the rows correlated above the cutoff with an earlier     *)
(* row.  The Pearson coefficient of u and v exceeds the cutoff in absolute *)
(* value iff cov^2 > cutoff^2 * var(u) * var(v), which is computed         *)
(* exactly; a zero variance makes the coefficient NaN, which exceeds       *)
(* nothing.                                                                *)
(***************************************************************************)
ExtraCol(row) == IF Sum(row) = 0 THEN 2 * SCALE ELSE row[1] + SCALE

Correlated(u, v) ==
    LET k == Len(u)
        cov == k * Dot(u, v) - Sum(u) * Sum(v)
        varu == k * Dot(u, u) - Sum(u) * Sum(u)
        varv == k * Dot(v, v) - Sum(v) * Sum(v)
    IN  /\ varu > 0
        /\ varv > 0
        /\ cov * cov * SCALE * SCALE
               > (SCALE - feasibility_tol) * (SCALE - feasibility_tol) * varu * varv

is_redundant(matrix) ==
    LET ext == [r \in 1..Len(matrix) |-> Append(matrix[r], ExtraCol(matrix[r]))]
    IN  {r \in 1..Len(matrix) : \E j \in 1..(r - 1) : Correlated(ext[r], ext[j])}

(***************************************************************************)
(* generate_fva_warmup, lines 345-370: what is done with the rows the      *)
(* optimizer produced.  The result is the warmup matrix, n_warmup and the  *)
(* exception raised, if any.                                               *)
(***************************************************************************)
\* self.warmup.T.dot([0.25, 0.25])
NewDir(w) == [k \in 1..Len(w[1]) |-> Quot(w[1][k], 4) + Quot(w[2][k], 4)]

SpecialCases(w, homogeneous) ==
    IF Len(w) = 1
    THEN [warmup |-> w, n_warmup |-> Len(w), err |-> "ValueError"]
    ELSE IF Len(w) = 2
    THEN IF ~homogeneous
         THEN [warmup |-> w, n_warmup |-> Len(w), err |-> "ValueError"]
         ELSE [warmup |-> Append(w, NewDir(w)), n_warmup |-> Len(w) + 1, err |-> "none"]
    ELSE [warmup |-> w, n_warmup |-> Len(w), err |-> "none"]

\* lines 349-350: the rows that are not redundant, in their order
KeptRows(rows) ==
    LET redundant == is_redundant(rows)
        keep(r) == r \notin redundant
        idx == SelectSeq(IndexSeq(Len(rows)), keep)
    IN  [r \in 1..Len(idx) |-> rows[idx[r]]]

FilterWarmup(rows, homogeneous) == SpecialCases(KeptRows(rows), homogeneous)

\* warmup.mean(axis=0)
Mean(w) == [k \in 1..Len(w[1]) |-> Quot(Sum([r \in 1..Len(w) |-> w[r][k]]), Len(w))]

(***************************************************************************)
(* _reproject and _random_point.  The random draws make the result a set   *)
(* of possible points.                                                     *)
(***************************************************************************)
CeilSqrt(m) == CHOOSE r \in 0..m : r * r >= m /\ \A q \in 0..m : q * q >= m => r <= q

random_point(w, nw) ==
    LET size == Min2(2, CeilSqrt(nw))
    IN  {[k \in 1..Len(w[1]) |-> Quot(Sum([j \in 1..size |-> w[idx[j]][k]]), size)] :
            idx \in [1..size -> 1..nw]}

\* equalities.dot(p) is close to b, rtol = 0, atol = feasibility_tol
AllClose(prob, q) ==
    \A r \in 1..Len(prob.equalities) :
        Abs(Dot(prob.equalities[r], q) - prob.b[r]) <= feasibility_tol

\* nulls.dot(nulls.T.dot(p))
Project(prob, q) ==
    [k \in 1..Len(q) |->
        Sum([c \in 1..Len(prob.nullspace) |->
                Quot(prob.nullspace[c].col[k] * Dot(prob.nullspace[c].col, q),
                     prob.nullspace[c].norm2)])]

\* a reprojection that returns its argument
ReprojectNever(prob, w, nw, q) == {q}

reproject(prob, w, nw, q) ==
    LET new == IF AllClose(prob, q) THEN q ELSE Project(prob, q)
    IN  IF new # q THEN random_point(w, nw) ELSE {new}

(***************************************************************************)
(* The scorers a caller may pass to sample: pure functions of the point.   *)
(* "None" is Python's None, anything else names a function.                *)
(***************************************************************************)
Score(f, q) ==
    CASE f = "likelihood" -> -Abs(q[1] - q[2])
      [] f = "prior" -> -(q[1] \div 2)

\* a lock that does not depend on the scorers
LockAlways(lik, pri) == TRUE

\* lines 218-221: prior or likelihood
LockCenter(lik, pri) == pri # "None" \/ lik # "None"

\* line 239: not previousPosterior (False and 0 and 0.0 are all false)
NoPreviousPosterior(pp) == pp = 0

\* line 243: np.log(np.random.rand()) < acceptProbability
MetropolisTest(logu, acceptProbability) == logu < acceptProbability

\* lines 247-251: the best sample after an acceptance by the Metropolis test
BestAfter(best, newPosterior, q) ==
    IF best = None THEN <<newPosterior, q>>
    ELSE IF newPosterior > best[1] THEN <<newPosterior, q>> ELSE best

\* a center update that ignores the lock
CenterAfterUnlocked(lock, ns, c, q) ==
    [k \in 1..Len(c) |-> Quot(ns * c[k], ns + 1) + Quot(q[k], ns + 1)]

\* lines 155-157: the center after an iteration
CenterAfter(lock, ns, c, q) ==
    IF ~lock
    THEN [k \in 1..Len(c) |-> Quot(ns * c[k], ns + 1) + Quot(q[k], ns + 1)]
    ELSE c

\* a reprojection that does not ask whether the problem is homogeneous
ReprojectAlways(prob, ns, thin, np) == (ns * thin) % np = 0

\* lines 150-151: whether this iteration reprojects
ReprojectNow(prob, ns, thin, np) == prob.homogeneous /\ (ns * thin) % np = 0

\* a rejection that keeps the candidate
KeepCandidate(q, saved) == q

\* lines 252-255: prev after a rejection
RolledBack(q, saved) == saved

\* lines 257-258: the row of the table written after iteration k, 0 for none
RowWritten(k, thin) == IF k % thin = 0 THEN k \div thin ELSE 0

\* HRSampler.__init__, lines 190-197: the index of the forward and of the
\* reverse variable of every reaction (the variables of a model are ordered
\* forward, reverse, reaction by reaction)
fwd_idx(m) == [r \in 1..Len(m.reactions) |-> 2 * r - 1]

rev_idx(m) == [r \in 1..Len(m.reactions) |-> 2 * r]

\* lines 265-267: the fluxes of a row, forward minus reverse variable
Fluxes(m, row) ==
    [r \in 1..Len(m.reactions) |-> row[fwd_idx(m)[r]] - row[rev_idx(m)[r]]]

(***************************************************************************)
(* sample: the call, one action per loop iteration part, and the return.   *)
(***************************************************************************)
LogU == (-MaxNegLogU)..(-1)

SampleCallWithin(maxn, maxs) ==
    /\ pc \in {"idle", "returned"}
    /\ \E nn \in 0..maxn, lik \in {"None", "likelihood"}, pri \in {"None", "prior"},
          fl \in BOOLEAN :
          /\ n_samples < maxs
          /\ n_samples + thinning * nn <= maxs
          /\ n' = nn
          /\ likelihood' = lik
          /\ prior' = pri
          /\ fluxes' = fl
          /\ lockCenter' = LockCenter(lik, pri)
          /\ samples' = [k \in 1..nn |-> [v \in 1..Len(center) |-> 0]]
          /\ pc' = IF thinning * nn >= 1 THEN "iterate" ELSE "report"
    /\ previousPosterior' = 0
    /\ savePrev' = None
    /\ totalSamples' = 0
    /\ rejections' = 0
    /\ i' = 1
    /\ rate' = None
    /\ table' = None
    /\ hist' = <<>>
    /\ iterPrev' = None
    /\ iterCenter' = None
    /\ lastAccepted' = None
    /\ decision' = None
    /\ n_samples0' = n_samples
    /\ UNCHANGED <<samplerVars, err, stepVars, retries0, accepted, averaged, otherVars>>

SampleCall == SampleCallWithin(MaxN, MaxSamples)

\* __single_iteration, lines 127-132: draw a direction and call step
IterationStep ==
    /\ pc = "iterate"
    /\ \E pi \in 1..n_warmup : delta' = VecSub(warmup[pi], center)
    /\ x' = prev
    /\ fraction' = None
    /\ tries' = 0
    /\ p' = None
    /\ retries0' = retries
    /\ pc' = "step"
    /\ UNCHANGED <<samplerVars, err, callVars, histVars, otherVars>>

\* __single_iteration, lines 147-158, and the loop body of sample after it
IterationEnd ==
    /\ \/ pc = "stepped" /\ ~validatecheck
       \/ pc = "checked"
    /\ LET proj == ReprojectNow(problem, n_samples, thinning, nproj)
       IN  \E prev1 \in (IF proj THEN reproject(problem, warmup, n_warmup, p) ELSE {p}),
              center1 \in (IF proj /\ ~lockCenter
                           THEN reproject(problem, warmup, n_warmup, center)
                           ELSE {center}),
              logu \in LogU :
           LET center2 == CenterAfter(lockCenter, n_samples, center1, prev1)
               newPosterior ==
                   (IF likelihood # "None" THEN Score(likelihood, prev1) ELSE 0)
                   + (IF prior # "None" THEN Score(prior, prev1) ELSE 0)
               acceptProbability == newPosterior - previousPosterior
               first == NoPreviousPosterior(previousPosterior)
               test == MetropolisTest(logu, acceptProbability)
               accept == first \/ test
               prev2 == IF lockCenter /\ ~accept THEN RolledBack(prev1, savePrev)
                        ELSE prev1
               row == RowWritten(i, thinning)
           IN  /\ center' = center2
               /\ n_samples' = n_samples + 1
               /\ totalSamples' = totalSamples + 1
               /\ prev' = prev2
               /\ previousPosterior' =
                      IF lockCenter /\ accept THEN newPosterior ELSE previousPosterior
               /\ savePrev' = IF lockCenter /\ accept THEN prev1 ELSE savePrev
               /\ bestSample' =
                      IF lockCenter /\ ~first /\ test
                      THEN BestAfter(bestSample, newPosterior, prev1)
                      ELSE bestSample
               /\ rejections' =
                      IF lockCenter /\ ~accept THEN rejections + 1 ELSE rejections
               /\ samples' = IF row # 0 THEN [samples EXCEPT ![row] = prev2] ELSE samples
               /\ hist' = Append(hist, [prev |-> prev2,
                                        stepped |-> p,
                                        accepted |-> ~lockCenter \/ accept,
                                        ns |-> n_samples,
                                        reprojected |-> proj,
                                        centerReprojected |-> proj /\ ~lockCenter])
               /\ averaged' = IF lockCenter THEN averaged ELSE averaged + 1
               /\ iterPrev' = prev1
               /\ iterCenter' =
                      [k \in 1..Len(center1) |->
                          Quot(n_samples * center1[k], n_samples + 1)
                          + Quot(prev1[k], n_samples + 1)]
               /\ lastAccepted' = IF lockCenter /\ accept THEN prev1 ELSE lastAccepted
               /\ decision' =
                      IF lockCenter
                      THEN <<[iteration |-> i, test |-> test, accepted |-> accept]>>
                      ELSE None
               /\ accepted' = IF lockCenter /\ accept
                              THEN accepted \cup {<<newPosterior, prev1>>}
                              ELSE accepted
    /\ i' = i + 1
    /\ pc' = IF i = thinning * n THEN "report" ELSE "iterate"
    \* the activation of step is over: its locals are gone
    /\ x' = None
    /\ delta' = None
    /\ fraction' = None
    /\ tries' = 0
    /\ p' = None
    /\ UNCHANGED <<problem, warmup, n_warmup, retries, thinning, nproj, err,
                   n, likelihood, prior, fluxes, lockCenter, rate, table,
                   retries0, n_samples0, otherVars>>

\* lines 260-271: print the acceptance rate and return the table
SampleReturn ==
    /\ pc = "report"
    /\ totalSamples > 0
    /\ rate' = <<totalSamples - rejections, totalSamples>>
    /\ table' = IF fluxes THEN [k \in 1..Len(samples) |-> Fluxes(model, samples[k])]
                ELSE samples
    /\ pc' = "returned"
    /\ UNCHANGED <<samplerVars, err, stepVars, n, likelihood, prior, fluxes, i,
                   lockCenter, previousPosterior, savePrev, totalSamples,
                   rejections, samples, retries0, histVars, otherVars>>

\* line 260 with no iteration made: float(0) / float(0)
SampleRaise ==
    /\ pc = "report"
    /\ totalSamples = 0
    /\ pc' = "raised"
    /\ err' = "ZeroDivisionError"
    /\ UNCHANGED <<samplerVars, stepVars, callVars, retries0, histVars, otherVars>>

sample == SampleCall \/ IterationStep \/ IterationEnd \/ SampleReturn \/ SampleRaise

(***************************************************************************)
(* validate, for one sample given in variable space.  The folding of the   *)
(* inequality rows is written for at most one row, which is what the       *)
(* problems of the model have.                                             *)
(***************************************************************************)
\* line 524 and 533: 1e-6, ten times the model's tolerance
val_tol_default == 10 * tolerance

\* lines 518-533: the tolerance validate stores for an argument
ValTol(arg) == IF arg = None THEN val_tol_default ELSE arg[1]

\* line 555: np.abs(S.dot(samples.T).T - b).max(axis=1)
Feasibility(prob, q) ==
    SetMax({Abs(Dot(prob.equalities[r], q) - prob.b[r]) : r \in 1..Len(prob.equalities)})

\* lines 557 and 574
LbError(prob, q) ==
    LET lb_error == SetMin({q[k] - prob.variable_bounds[1][k] : k \in 1..Len(q)})
        rows == 1..Len(prob.inequalities)
    IN  IF Len(prob.inequalities) > 0
        THEN Min2(lb_error,
                  SetMin({Dot(prob.inequalities[r], q) - prob.bounds[1][r] : r \in rows}))
        ELSE lb_error

\* lines 558 and 578
UbError(prob, q) ==
    LET ub_error == SetMin({prob.variable_bounds[2][k] - q[k] : k \in 1..Len(q)})
        rows == 1..Len(prob.inequalities)
    IN  IF Len(prob.inequalities) > 0
        THEN Min2(ub_error,
                  SetMin({prob.bounds[2][r] - Dot(prob.inequalities[r], q) : r \in rows}))
        ELSE ub_error

\* a code whose "v" does not look at the upper bounds
ValidateCodeNoUpper(feasibility, lb_error, ub_error, ftol, btol) ==
    LET valid == feasibility < ftol /\ lb_error > -btol
        c0 == IF valid THEN <<"v">> ELSE <<>>
        c1 == IF lb_error <= -btol THEN Append(c0, "l") ELSE c0
        c2 == IF ub_error <= -btol THEN Append(c1, "u") ELSE c1
        c3 == IF feasibility > ftol THEN Append(c2, "e") ELSE c2
    IN  SubSeq(c3, 1, Min2(3, Len(c3)))

\* lines 604-628: the code of a row, a string of at most 3 letters
ValidateCode(feasibility, lb_error, ub_error, ftol, btol) ==
    LET valid == feasibility < ftol /\ lb_error > -btol /\ ub_error > -btol
        c0 == IF valid THEN <<"v">> ELSE <<>>
        c1 == IF lb_error <= -btol THEN Append(c0, "l") ELSE c0
        c2 == IF ub_error <= -btol THEN Append(c1, "u") ELSE c1
        c3 == IF feasibility > ftol THEN Append(c2, "e") ELSE c2
    IN  SubSeq(c3, 1, Min2(3, Len(c3)))

\* the sample has a column for each variable, and the maximum of line 555
\* has something to range over
ValidateReturn ==
    /\ pc = "validate"
    /\ Len(vSamples) = Len(problem.variable_fixed)
    /\ Len(problem.equalities) > 0
    /\ val_feasibility_tol' = ValTol(vFeasTol)
    /\ val_bounds_tol' = ValTol(vBoundsTol)
    /\ codes' = <<ValidateCode(Feasibility(problem, vSamples),
                               LbError(problem, vSamples),
                               UbError(problem, vSamples),
                               ValTol(vFeasTol), ValTol(vBoundsTol))>>
    /\ pc' = "validated"
    /\ UNCHANGED <<samplerVars, err, stepVars, callVars, retries0, histVars, fvaVars,
                   vSamples, vFeasTol, vBoundsTol, restVars>>

\* line 549: the wrong number of columns; line 555: the maximum of an empty
\* row, which numpy refuses
ValidateRaise ==
    /\ pc = "validate"
    /\ \/ Len(vSamples) \notin {Len(model.reactions), Len(problem.variable_fixed)}
       \/ /\ Len(vSamples) = Len(problem.variable_fixed)
          /\ Len(problem.equalities) = 0
    /\ val_feasibility_tol' = ValTol(vFeasTol)
    /\ val_bounds_tol' = ValTol(vBoundsTol)
    /\ pc' = "raised"
    /\ err' = "ValueError"
    /\ UNCHANGED <<samplerVars, stepVars, callVars, retries0, histVars, fvaVars,
                   vSamples, vFeasTol, vBoundsTol, codes, restVars>>

validate == ValidateReturn \/ ValidateRaise

(***************************************************************************)
(* The validity search of __single_iteration, lines 136-146: what follows  *)
(* the return of step when sample was called with validatecheck.  The      *)
(* candidate testprev is the variable p.                                   *)
(***************************************************************************)
\* line 138: feas_tol=1e-6, bounds_tol=1e-6, ten times the model's tolerance
search_tol == 10 * tolerance

\* the code validate returns for the candidate
SearchCode(prob, q) ==
    ValidateCode(Feasibility(prob, q), LbError(prob, q), UbError(prob, q),
                 search_tol, search_tol)

\* line 138, element in 'v': the code is a substring of "v"
InV(code) == code = <<>> \/ code = <<"v">>

\* the loop ends because the candidate is found valid
SearchPass ==
    /\ pc = "stepped"
    /\ validatecheck
    /\ Len(problem.equalities) > 0
    /\ counter <= nmax
    /\ InV(SearchCode(problem, p))
    /\ vSamples' = p
    /\ vFeasTol' = <<search_tol>>
    /\ vBoundsTol' = <<search_tol>>
    /\ val_feasibility_tol' = search_tol
    /\ val_bounds_tol' = search_tol
    /\ codes' = <<SearchCode(problem, p)>>
    /\ counter' = 0
    /\ pc' = "checked"
    /\ UNCHANGED <<samplerVars, err, stepVars, callVars, retries0, histVars, fvaVars,
                   filterVars, validatecheck, pairVars>>

\* lines 139-146: the candidate is not valid and attempts are left; draw a
\* direction and step again
SearchRetry ==
    /\ pc = "stepped"
    /\ validatecheck
    /\ Len(problem.equalities) > 0
    /\ counter < nmax
    /\ ~InV(SearchCode(problem, p))
    /\ vSamples' = p
    /\ vFeasTol' = None
    /\ vBoundsTol' = None
    /\ val_feasibility_tol' = val_tol_default
    /\ val_bounds_tol' = val_tol_default
    /\ codes' = <<SearchCode(problem, p)>>
    /\ \E pi \in 1..n_warmup : delta' = VecSub(warmup[pi], center)
    /\ x' = p
    /\ fraction' = None
    /\ tries' = 0
    /\ p' = None
    /\ retries0' = retries
    /\ counter' = counter + 1
    /\ pc' = "step"
    /\ UNCHANGED <<samplerVars, err, callVars, histVars, fvaVars, filterVars,
                   validatecheck, pairVars>>

\* an exit that comes after the assignment of line 147
SearchAbortAssigned ==
    /\ pc = "stepped"
    /\ validatecheck
    /\ Len(problem.equalities) > 0
    /\ counter = nmax
    /\ ~InV(SearchCode(problem, p))
    /\ vSamples' = p
    /\ vFeasTol' = <<search_tol>>
    /\ vBoundsTol' = <<search_tol>>
    /\ val_feasibility_tol' = search_tol
    /\ val_bounds_tol' = search_tol
    /\ codes' = <<SearchCode(problem, p)>>
    /\ prev' = p
    /\ pc' = "exited"
    /\ err' = "SystemExit"
    /\ UNCHANGED <<problem, warmup, n_warmup, center, n_samples, retries,
                   thinning, nproj, bestSample, stepVars, callVars, retries0,
                   histVars, fvaVars, filterVars, searchVars, pairVars>>

\* lines 139-141: the candidate is not valid and no attempt is left
SearchAbort ==
    /\ pc = "stepped"
    /\ validatecheck
    /\ Len(problem.equalities) > 0
    /\ counter = nmax
    /\ ~InV(SearchCode(problem, p))
    /\ vSamples' = p
    /\ vFeasTol' = <<search_tol>>
    /\ vBoundsTol' = <<search_tol>>
    /\ val_feasibility_tol' = search_tol
    /\ val_bounds_tol' = search_tol
    /\ codes' = <<SearchCode(problem, p)>>
    /\ pc' = "exited"
    /\ err' = "SystemExit"
    /\ UNCHANGED <<samplerVars, stepVars, callVars, retries0, histVars, fvaVars,
                   filterVars, searchVars, pairVars>>

\* line 138 on a problem without equality rows: validate raises at line 555
SearchRaise ==
    /\ pc = "stepped"
    /\ validatecheck
    /\ Len(problem.equalities) = 0
    /\ vSamples' = p
    /\ vFeasTol' = <<search_tol>>
    /\ vBoundsTol' = <<search_tol>>
    /\ val_feasibility_tol' = search_tol
    /\ val_bounds_tol' = search_tol
    /\ pc' = "raised"
    /\ err' = "ValueError"
    /\ UNCHANGED <<samplerVars, stepVars, callVars, retries0, histVars, fvaVars,
                   codes, filterVars, searchVars, pairVars>>

search == SearchPass \/ SearchRetry \/ SearchAbort \/ SearchRaise

(***************************************************************************)
(* generate_fva_warmup: the call, one action per reaction of the loop,     *)
(* and lines 345-370.  The optimizer is outside the program: its status    *)
(* and its solution are any status and any point of model.solutions.       *)
(***************************************************************************)
OPTIMAL == "optimal"

Statuses == {OPTIMAL, "infeasible"}

Zeros(m) == [k \in 1..m |-> 0]

\* lines 274-280
WarmupPoints(m, incl) ==
    IF incl
    THEN 2 * (Len(m.reactions)
              + Cardinality({r \in 1..Len(m.reactions) : m.reactions[r].reversibility}))
    ELSE 2 * Len(m.reactions)

\* objective.set_linear_coefficients({variables[0]: cf, variables[1]: cv})
SetCoefficients(obj, f, cf, v, cv) ==
    [k \in 1..Len(obj) |-> IF k = f THEN cf ELSE IF k = v THEN cv ELSE obj[k]]

\* lines 272-284
FvaCall ==
    /\ pc = "constructed"
    /\ \E incl \in BOOLEAN :
          /\ includeReversible' = incl
          /\ warmup' = [k \in 1..WarmupPoints(model, incl) |->
                           Zeros(Len(problem.variable_fixed))]
    /\ n_warmup' = 0
    /\ objective' = Zeros(Len(problem.variable_fixed))
    /\ sense' = "min"
    /\ ri' = 1
    /\ solved' = {}
    /\ pc' = "fva"
    /\ UNCHANGED <<problem, center, prev, n_samples, retries, thinning, nproj,
                   bestSample, err, stepVars, callVars, retries0, histVars, model,
                   validateVars, restVars>>

\* lines 287-343: the body of the loop for one reaction
FvaIteration ==
    /\ pc = "fva"
    /\ \E status1 \in Statuses, status2 \in Statuses :
        \E sol1 \in (IF status1 = OPTIMAL THEN model.solutions ELSE {None}),
           sol2 \in (IF status2 = OPTIMAL THEN model.solutions ELSE {None}) :
          LET r == model.reactions[ri]
              f == fwd_idx(model)[ri]
              v == rev_idx(model)[ri]
              fixed == r.upper_bound - r.lower_bound < bounds_tol
              net == SetCoefficients(objective, f, 1, v, -1)
              cleared == SetCoefficients(objective, f, 0, v, 0)
              circulation == SetCoefficients(objective, f, 1, v, 1)
              one == [warmup EXCEPT ![n_warmup + 1] = sol1]
              two == [one EXCEPT ![n_warmup + 2] = sol2]
              first == [reaction |-> ri, objective |-> net]
              second == [reaction |-> ri, objective |-> circulation]
          IN  IF fixed
              THEN /\ solved' = {}
                   /\ UNCHANGED <<warmup, n_warmup, objective>>
              ELSE IF status1 # OPTIMAL
              THEN /\ objective' = net
                   /\ solved' = {first}
                   /\ UNCHANGED <<warmup, n_warmup>>
              ELSE IF ~(includeReversible /\ r.reversibility)
              THEN /\ warmup' = one
                   /\ n_warmup' = n_warmup + 1
                   /\ objective' = cleared
                   /\ solved' = {first}
              ELSE IF status2 # OPTIMAL
              THEN /\ warmup' = one
                   /\ n_warmup' = n_warmup + 1
                   /\ objective' = circulation
                   /\ solved' = {first, second}
              ELSE /\ warmup' = two
                   /\ n_warmup' = n_warmup + 2
                   /\ objective' = cleared
                   /\ solved' = {first, second}
    /\ ri' = IF ri < Len(model.reactions) THEN ri + 1 ELSE 1
    /\ sense' = IF ri = Len(model.reactions) THEN "max" ELSE sense
    /\ pc' = IF ri = Len(model.reactions) /\ sense = "max" THEN "fva_tail" ELSE "fva"
    /\ UNCHANGED <<problem, center, prev, n_samples, retries, thinning, nproj,
                   bestSample, err, stepVars, callVars, retries0, histVars, model,
                   includeReversible, validateVars, restVars>>

\* lines 345-370 when nothing is raised
FvaFinish ==
    /\ pc = "fva_tail"
    /\ LET done == FilterWarmup(SubSeq(warmup, 1, n_warmup), problem.homogeneous)
       IN  /\ done.err = "none"
           /\ warmup' = done.warmup
           /\ n_warmup' = done.n_warmup
    /\ pc' = "warmed"
    /\ UNCHANGED <<problem, center, prev, n_samples, retries, thinning, nproj,
                   bestSample, err, stepVars, callVars, retries0, histVars, otherVars>>

\* lines 345-361 when one of the two errors is raised
FvaRaise ==
    /\ pc = "fva_tail"
    /\ LET done == FilterWarmup(SubSeq(warmup, 1, n_warmup), problem.homogeneous)
       IN  /\ done.err # "none"
           /\ warmup' = done.warmup
           /\ n_warmup' = done.n_warmup
           /\ err' = done.err
    /\ pc' = "raised"
    /\ UNCHANGED <<problem, center, prev, n_samples, retries, thinning, nproj,
                   bestSample, stepVars, callVars, retries0, histVars, otherVars>>

generate_fva_warmup == FvaCall \/ FvaIteration \/ FvaFinish \/ FvaRaise

(***************************************************************************)
(* The models.  A model is given by what constraint_matrices and nullspace *)
(* return for it, by its reactions, and by the points its optimizer        *)
(* returns.  The first four have one reaction (a forward and a reverse     *)
(* variable) and come with the rows the warmup loop collected for them.    *)
(***************************************************************************)
OneReaction == << [lower_bound |-> -MaxFlux, upper_bound |-> MaxFlux, reversibility |-> TRUE] >>

\* no equality, one inequality row: fwd + rev within [0, MaxFlux]
Box ==
    [equalities |-> <<>>, b |-> <<>>,
     inequalities |-> << <<1, 1>> >>,
     bounds |-> << <<0>>, <<MaxFlux>> >>,
     variable_fixed |-> <<FALSE, FALSE>>,
     variable_bounds |-> << <<0, 0>>, <<MaxFlux, MaxFlux>> >>,
     nullspace |-> << [col |-> <<1, 0>>, norm2 |-> 1], [col |-> <<0, 1>>, norm2 |-> 1] >>,
     reactions |-> OneReaction,
     rows |-> << <<0, MaxFlux>>, <<2, MaxFlux - 2>>, <<MaxFlux, 0>> >>]

\* the homogeneous equality 3 fwd - rev = 0
Line ==
    [equalities |-> << <<3, -1>> >>, b |-> <<0>>,
     inequalities |-> <<>>,
     bounds |-> << <<>>, <<>> >>,
     variable_fixed |-> <<FALSE, FALSE>>,
     variable_bounds |-> << <<0, 0>>, <<MaxFlux, MaxFlux>> >>,
     nullspace |-> << [col |-> <<1, 3>>, norm2 |-> 10] >>,
     reactions |-> OneReaction,
     rows |-> << <<0, 0>>, <<2, 6>> >>]

\* the equality fwd + rev = MaxFlux, which is not homogeneous
Affine ==
    [equalities |-> << <<1, 1>> >>, b |-> <<MaxFlux>>,
     inequalities |-> <<>>,
     bounds |-> << <<>>, <<>> >>,
     variable_fixed |-> <<FALSE, FALSE>>,
     variable_bounds |-> << <<0, 0>>, <<MaxFlux, MaxFlux>> >>,
     nullspace |-> << [col |-> <<1, -1>>, norm2 |-> 2] >>,
     reactions |-> OneReaction,
     rows |-> << <<0, MaxFlux>>, <<2, MaxFlux - 2>>, <<MaxFlux, 0>> >>]

\* the equality 3 fwd - rev = 0 and the inequality row fwd + rev within
\* [0, MaxFlux + 2]
Wedge ==
    [equalities |-> << <<3, -1>> >>, b |-> <<0>>,
     inequalities |-> << <<1, 1>> >>,
     bounds |-> << <<0>>, <<MaxFlux + 2>> >>,
     variable_fixed |-> <<FALSE, FALSE>>,
     variable_bounds |-> << <<0, 0>>, <<MaxFlux, MaxFlux>> >>,
     nullspace |-> << [col |-> <<1, 3>>, norm2 |-> 10] >>,
     reactions |-> OneReaction,
     rows |-> << <<0, 0>>, <<2, 6>> >>]

\* two reactions and no metabolite: the first is fixed at the flux 2, the
\* second is reversible.  The fixed forward variable becomes an equality row.
Pinned ==
    [equalities |-> <<>>, b |-> <<>>,
     inequalities |-> <<>>,
     bounds |-> << <<>>, <<>> >>,
     variable_fixed |-> <<TRUE, TRUE, FALSE, FALSE>>,
     variable_bounds |-> << <<2, 0, 0, 0>>, <<2, 0, MaxFlux, MaxFlux>> >>,
     nullspace |-> << [col |-> <<0, 1, 0, 0>>, norm2 |-> 1],
                      [col |-> <<0, 0, 1, 0>>, norm2 |-> 1],
                      [col |-> <<0, 0, 0, 1>>, norm2 |-> 1] >>,
     reactions |-> << [lower_bound |-> 2, upper_bound |-> 2, reversibility |-> FALSE],
                      [lower_bound |-> -MaxFlux, upper_bound |-> MaxFlux,
                       reversibility |-> TRUE] >>,
     rows |-> << <<2, 0, 0, MaxFlux>>, <<2, 0, 0, 0>>, <<2, 0, MaxFlux, 0>> >>]

RawProblems == {Box, Line, Affine, Pinned}

\* the line of Line with an equality row of five times the coefficients
Steep ==
    [equalities |-> << <<15, -5>> >>, b |-> <<0>>,
     inequalities |-> <<>>,
     bounds |-> << <<>>, <<>> >>,
     variable_fixed |-> <<FALSE, FALSE>>,
     variable_bounds |-> << <<0, 0>>, <<MaxFlux, MaxFlux>> >>,
     nullspace |-> << [col |-> <<1, 3>>, norm2 |-> 10] >>,
     reactions |-> OneReaction,
     rows |-> << <<0, 0>>, <<2, 6>> >>]

\* two reactions around one metabolite, fwd1 - rev1 - fwd2 + rev2 = 0: the
\* first is reversible, the second is not
Net ==
    [equalities |-> << <<1, -1, -1, 1>> >>, b |-> <<0>>,
     inequalities |-> <<>>,
     bounds |-> << <<>>, <<>> >>,
     variable_fixed |-> <<FALSE, FALSE, FALSE, TRUE>>,
     variable_bounds |-> << <<0, 0, 0, 0>>, <<MaxFlux, MaxFlux, MaxFlux, 0>> >>,
     nullspace |-> << [col |-> <<1, 1, 0, 0>>, norm2 |-> 2],
                      [col |-> <<0, 0, 1, 1>>, norm2 |-> 2],
                      [col |-> <<1, -1, 1, -1>>, norm2 |-> 4] >>,
     reactions |-> << [lower_bound |-> -MaxFlux, upper_bound |-> MaxFlux,
                       reversibility |-> TRUE],
                      [lower_bound |-> 0, upper_bound |-> MaxFlux,
                       reversibility |-> FALSE] >>,
     solutions |-> {<<0, 0, 0, 0>>, <<MaxFlux, 0, MaxFlux, 0>>,
                    <<MaxFlux, MaxFlux, 0, 0>>, <<MaxFlux, 2, MaxFlux - 2, 0>>}]

\* the same metabolite, the first reaction fixed at the flux 2 and the
\* second reversible
NetFixed ==
    [equalities |-> << <<1, -1, -1, 1>> >>, b |-> <<0>>,
     inequalities |-> <<>>,
     bounds |-> << <<>>, <<>> >>,
     variable_fixed |-> <<TRUE, TRUE, FALSE, FALSE>>,
     variable_bounds |-> << <<2, 0, 0, 0>>, <<2, 0, MaxFlux, MaxFlux>> >>,
     nullspace |-> << [col |-> <<0, 0, 1, 1>>, norm2 |-> 2],
                      [col |-> <<0, 2, -1, 1>>, norm2 |-> 6] >>,
     reactions |-> << [lower_bound |-> 2, upper_bound |-> 2, reversibility |-> FALSE],
                      [lower_bound |-> -MaxFlux, upper_bound |-> MaxFlux,
                       reversibility |-> TRUE] >>,
     solutions |-> {<<2, 0, 2, 0>>, <<2, 0, MaxFlux, MaxFlux - 2>>, <<2, 0, 4, 2>>}]

\* both reactions fixed at the flux 2
NetAllFixed ==
    [equalities |-> << <<1, -1, -1, 1>> >>, b |-> <<0>>,
     inequalities |-> <<>>,
     bounds |-> << <<>>, <<>> >>,
     variable_fixed |-> <<TRUE, TRUE, TRUE, TRUE>>,
     variable_bounds |-> << <<2, 0, 2, 0>>, <<2, 0, 2, 0>> >>,
     nullspace |-> << [col |-> <<0, 1, 0, 1>>, norm2 |-> 2] >>,
     reactions |-> << [lower_bound |-> 2, upper_bound |-> 2, reversibility |-> FALSE],
                      [lower_bound |-> 2, upper_bound |-> 2, reversibility |-> FALSE] >>,
     solutions |-> {<<2, 0, 2, 0>>}]

FvaModels == {Net, NetFixed, NetAllFixed}

\* the model a sampler keeps: model.reactions and what its optimizer returns
ModelOf(raw, sols) == [reactions |-> raw.reactions, solutions |-> sols]

\* the points of the grid within the bounds of a problem
Feasible(prob) ==
    {q \in (0..MaxFlux) \X (0..MaxFlux) :
        /\ bounds_dist(prob, q)[1] >= 0
        /\ bounds_dist(prob, q)[2] >= 0}

(***************************************************************************)
(* The values of the variables no call has set yet.                        *)
(***************************************************************************)
IdleCall ==
    /\ n = 0
    /\ likelihood = "None"
    /\ prior = "None"
    /\ fluxes = TRUE
    /\ i = 0
    /\ lockCenter = FALSE
    /\ previousPosterior = 0
    /\ savePrev = None
    /\ totalSamples = 0
    /\ rejections = 0
    /\ samples = <<>>
    /\ rate = None
    /\ table = None
    /\ hist = <<>>
    /\ iterPrev = None
    /\ iterCenter = None
    /\ lastAccepted = None
    /\ decision = None
    /\ accepted = {}
    /\ averaged = 0
    /\ n_samples0 = 0

IdleStep ==
    /\ x = None
    /\ delta = None
    /\ fraction = None
    /\ tries = 0
    /\ p = None
    /\ retries0 = 0

IdleFva ==
    /\ includeReversible = FALSE
    /\ sense = "min"
    /\ ri = 0
    /\ objective = None
    /\ solved = {}

IdleValidate ==
    /\ vSamples = None
    /\ vFeasTol = None
    /\ vBoundsTol = None
    /\ val_feasibility_tol = None
    /\ val_bounds_tol = None
    /\ codes = None

IdleRedundant ==
    /\ collected = None
    /\ order = None
    /\ kept = None
    /\ keptPermuted = None

IdleSearch ==
    /\ counter = 0

IdlePair ==
    /\ rng = 0
    /\ walkers = None
    /\ alone = None

\* MCMCACHRSampler.__init__ for one of the models with one reaction
Constructed(raws) ==
    /\ \E raw \in raws :
          /\ problem = build_problem(raw)
          /\ model = ModelOf(raw, {raw.rows[k] : k \in 1..Len(raw.rows)})
          /\ warmup = FilterWarmup(raw.rows, problem.homogeneous).warmup
          /\ FilterWarmup(raw.rows, problem.homogeneous).err = "none"
    /\ n_warmup = Len(warmup)
    /\ center = Mean(warmup)
    /\ prev = center
    /\ n_samples = 0
    /\ retries = 0
    /\ bestSample = None
    /\ err = "none"

(***************************************************************************)
(* Spec: a sampler after MCMCACHRSampler.__init__, and the calls of        *)
(* sample made on it.                                                      *)
(***************************************************************************)
Init ==
    /\ Constructed(RawProblems)
    /\ thinning \in 1..MaxThinning
    /\ nproj \in 1..MaxNproj
    /\ pc = "idle"
    /\ IdleStep
    /\ IdleCall
    /\ IdleFva
    /\ IdleValidate
    /\ IdleRedundant
    /\ validatecheck = FALSE
    /\ IdleSearch
    /\ IdlePair

\* the retries counter is capped: a step that would raise it further is cut
BoundedStep == (StepReturn \/ StepRetry) /\ retries' <= MaxRetries

Next == sample \/ BoundedStep

Spec == Init /\ [][Next]_vars

(***************************************************************************)
(* SpecStep: step called on any feasible point with any direction, by a    *)
(* sampler whose center is the mean of its warmup points or a point the    *)
(* walk has moved it to.                                                   *)
(***************************************************************************)
InitStep ==
    /\ problem = build_problem(Box)
    /\ model = ModelOf(Box, {Box.rows[k] : k \in 1..Len(Box.rows)})
    /\ warmup = FilterWarmup(Box.rows, problem.homogeneous).warmup
    /\ n_warmup = Len(warmup)
    /\ center \in {Mean(warmup), <<3, 1>>}
    /\ prev = center
    /\ n_samples = 0
    /\ retries = 0
    /\ thinning = 1
    /\ nproj = 1
    /\ bestSample = None
    /\ pc = "step"
    /\ err = "none"
    /\ x \in Feasible(problem)
    /\ delta \in (-MaxDelta..MaxDelta) \X (-MaxDelta..MaxDelta)
    /\ fraction \in {None} \cup {<<f>> : f \in {0, SCALE \div 2, SCALE}}
    /\ tries = 0
    /\ p = None
    /\ retries0 = retries
    /\ IdleCall
    /\ IdleFva
    /\ IdleValidate
    /\ IdleRedundant
    /\ validatecheck = FALSE
    /\ IdleSearch
    /\ IdlePair

NextStep == step

SpecStep == InitStep /\ [][NextStep]_vars

(***************************************************************************)
(* SpecValidate: validate called on a constructed sampler with one sample. *)
(* The sample has a column for each variable, or one column too many; its  *)
(* entries leave the variable bounds by up to MaxViol.                     *)
(***************************************************************************)
ValidateInputs ==
    {<<a, c>> : a \in (-MaxViol)..(MaxFlux + MaxViol), c \in (-MaxViol)..(MaxFlux + MaxViol)}
        \cup {<<0, 0, 0>>}

InitValidate ==
    /\ Constructed({Box, Line, Affine, Wedge})
    /\ thinning = 1
    /\ nproj = 1
    /\ pc = "validate"
    /\ vSamples \in ValidateInputs
    /\ vFeasTol \in {None, <<0>>, <<tolerance>>}
    /\ vBoundsTol \in {None, <<tolerance>>}
    /\ val_feasibility_tol = None
    /\ val_bounds_tol = None
    /\ codes = None
    /\ IdleStep
    /\ IdleCall
    /\ IdleFva
    /\ IdleRedundant
    /\ validatecheck = FALSE
    /\ IdleSearch
    /\ IdlePair

NextValidate == validate

SpecValidate == InitValidate /\ [][NextValidate]_vars

(***************************************************************************)
(* SpecWarmup: generate_fva_warmup called on a sampler HRSampler.__init__  *)
(* has just built.                                                         *)
(***************************************************************************)
InitWarmup ==
    /\ \E raw \in FvaModels :
          /\ problem = build_problem(raw)
          /\ model = ModelOf(raw, raw.solutions)
    /\ warmup = None
    /\ n_warmup = 0
    /\ center = None
    /\ prev = None
    /\ n_samples = 0
    /\ retries = 0
    /\ thinning = 1
    /\ nproj = 1
    /\ bestSample = None
    /\ pc = "constructed"
    /\ err = "none"
    /\ IdleStep
    /\ IdleCall
    /\ IdleFva
    /\ IdleValidate
    /\ IdleRedundant
    /\ validatecheck = FALSE
    /\ IdleSearch
    /\ IdlePair

NextWarmup == generate_fva_warmup

SpecWarmup == InitWarmup /\ [][NextWarmup]_vars

(***************************************************************************)
(* SpecSearch: the calls of sample with validatecheck on a sampler after   *)
(* MCMCACHRSampler.__init__, on a problem with an equality row and on one  *)
(* without.                                                                *)
(***************************************************************************)
InitSearch ==
    /\ Constructed({Steep, Box})
    /\ thinning = 1
    /\ nproj \in 1..MaxNproj
    /\ pc = "idle"
    /\ validatecheck = TRUE
    /\ IdleStep
    /\ IdleCall
    /\ IdleFva
    /\ IdleValidate
    /\ IdleRedundant
    /\ IdleSearch
    /\ IdlePair

\* the calls are narrowed to sample(n, validatecheck=True) with n <= 1
NarrowCall ==
    SampleCall /\ n' \in 0..1 /\ likelihood' = "None" /\ prior' = "None" /\ fluxes'

NextSearch ==
    \/ NarrowCall
    \/ IterationStep
    \/ IterationEnd
    \/ SampleReturn
    \/ SampleRaise
    \/ search
    \/ BoundedStep

SpecSearch == InitSearch /\ [][NextSearch]_vars

(***************************************************************************)
(* SpecFatal: sample calls that may end in the RuntimeError of step or in   *)
(* the exit of the validity search, on a problem with an equality row.  A  *)
(* step is retried as long as the code retries it, in the runs where the   *)
(* walk is stuck at the first warmup row.                                  *)
(***************************************************************************)
InitFatal ==
    /\ Constructed({Steep})
    /\ thinning = 1
    /\ nproj = MaxNproj
    /\ pc = "idle"
    /\ validatecheck \in BOOLEAN
    /\ IdleStep
    /\ IdleCall
    /\ IdleFva
    /\ IdleValidate
    /\ IdleRedundant
    /\ IdleSearch
    /\ IdlePair

\* the calls are sample(n, likelihood=...) and sample(n), and
\* sample(n, validatecheck=True) with n <= 1
FatalCall ==
    /\ SampleCallWithin(MaxFatalSamples, MaxFatalSamples)
    /\ prior' = "None"
    /\ fluxes'
    /\ validatecheck => (n' <= 1 /\ likelihood' = "None")

\* the retries followed are those of a step that no draw of alpha at line 786
\* makes stable, with the first warmup row drawn at line 808
FatalRetry ==
    /\ StepRetry
    /\ \A alpha \in AlphaChoices(AlphaRange(problem, x, delta), fraction) :
          Unstable(problem, Candidate(x, alpha, delta), AlphaRange(problem, x, delta), delta)
    /\ delta' = VecSub(warmup[1], center)

NextFatal ==
    \/ FatalCall
    \/ IterationStep
    \/ IterationEnd
    \/ SampleReturn
    \/ SampleRaise
    \/ SearchPass
    \/ SearchRetry
    \/ SearchAbort
    \/ StepReturn
    \/ FatalRetry
    \/ StepRaise

SpecFatal == InitFatal /\ [][NextFatal]_vars

(***************************************************************************)
(* SpecPair: two sampler instances in one process.  np.random is the       *)
(* generator of the process: MCMCACHRSampler.__init__ seeds it, and        *)
(* __single_iteration, step and _random_point draw from it.  The generator *)
(* is modelled as a linear congruential one with RngMod states; a call of  *)
(* sample is computed as a function of the instance and the generator      *)
(* state.  The calls are sample(n) without scorers.                        *)
(***************************************************************************)
Walkers == {1, 2}

\* hr_sampler.py line 206: self._seed % np.iinfo(np.int32).max
Int32Max == 2147483647

\* np.random.seed(self._seed): the generator state after seeding
RngSeed(seed) == (seed % Int32Max) % RngMod

\* the generator state after one draw
RngNext(r) == (5 * r + 3) % RngMod

\* np.random.randint(m) read from the generator state after the draw
RandInt(r, m) == (r % m) + 1

\* np.random.uniform(lo, hi) read from the generator state after the draw
Uniform(r, lo, hi) == lo + Quot(r * (hi - lo), RngMod)

\* step(sampler, x, delta, None, tries) with the generator in state r
RECURSIVE StepRun(_, _, _, _, _)
StepRun(w, xx, dd, t, r) ==
    LET range == AlphaRange(w.problem, xx, dd)
        r1 == RngNext(r)
        q == Candidate(xx, Uniform(r1, range[1], range[2]), dd)
        r2 == RngNext(r1)
        newdir == w.warmup[RandInt(r2, w.n_warmup)]
    IN  IF Unstable(w.problem, q, range, dd)
        THEN IF TriesExhausted(t)
             THEN [p |-> None, walker |-> [w EXCEPT !.err = "RuntimeError"],
                   rng |-> r1, draws |-> <<r1>>]
             ELSE LET rest == StepRun([w EXCEPT !.retries = @ + 1], w.center,
                                      VecSub(newdir, w.center), t + 1, r2)
                  IN  [rest EXCEPT !.draws = <<r1, r2>> \o @]
        ELSE [p |-> q, walker |-> w, rng |-> r1, draws |-> <<r1>>]

\* _random_point() with the generator in state r
RandomPointRun(w, size, r1, r2) ==
    [point |-> [k \in 1..Len(w.center) |->
                   Quot(w.warmup[RandInt(r1, w.n_warmup)][k]
                        + (IF size = 2 THEN w.warmup[RandInt(r2, w.n_warmup)][k] ELSE 0),
                        size)],
     rng |-> r2,
     draws |-> IF size = 2 THEN <<r1, r2>> ELSE <<r1>>]

\* _reproject(q) with the generator in state r
ReprojectRun(w, q, r) ==
    IF (IF AllClose(w.problem, q) THEN q ELSE Project(w.problem, q)) # q
    THEN RandomPointRun(w, Min2(2, CeilSqrt(w.n_warmup)), RngNext(r),
                        IF Min2(2, CeilSqrt(w.n_warmup)) = 2
                        THEN RngNext(RngNext(r)) ELSE RngNext(r))
    ELSE [point |-> q, rng |-> r, draws |-> <<>>]

\* lines 150-158 of __single_iteration(lockCenter=False): pr is
\* the reprojection of the new point, ce that of the center
IterationClose(w, st, pr, ce) ==
    [walker |-> [st.walker EXCEPT
                    !.prev = pr.point,
                    !.center = CenterAfter(FALSE, w.n_samples, ce.point, pr.point),
                    !.n_samples = @ + 1],
     rng |-> ce.rng,
     draws |-> st.draws \o pr.draws \o ce.draws]

\* lines 152-154: the center is reprojected after the new point
IterationCenter(w, st, pr) ==
    IterationClose(w, st, pr, ReprojectRun(w, w.center, pr.rng))

\* __single_iteration after its step st
IterationAfter(w, st) ==
    IF st.walker.err # "none"
    THEN [walker |-> st.walker, rng |-> st.rng, draws |-> st.draws]
    ELSE IF ReprojectNow(w.problem, w.n_samples, w.thinning, w.nproj)
    THEN IterationCenter(w, st, ReprojectRun(w, st.p, st.rng))
    ELSE IterationClose(w, st, [point |-> st.p, rng |-> st.rng, draws |-> <<>>],
                        [point |-> w.center, rng |-> st.rng, draws |-> <<>>])

\* __single_iteration(lockCenter=False) with the generator in state r
IterationRun(w, r) ==
    IterationAfter(w, StepRun(w, w.prev,
                              VecSub(w.warmup[RandInt(RngNext(r), w.n_warmup)], w.center),
                              0, RngNext(r)))

\* the loop of sample from iteration k on: the instance, the rows written
\* and the generator state at its end; r0 is the state before iteration k
RECURSIVE LoopRun(_, _, _, _, _, _)
LoopFrom(it, r0, k, last, rows, drawn) ==
    LoopRun(it.walker, it.rng, k + 1, last,
            IF RowWritten(k, it.walker.thinning) # 0 /\ it.walker.err = "none"
            THEN Append(rows, it.walker.prev) ELSE rows,
            drawn \o <<RngNext(r0)>> \o it.draws)

LoopRun(w, r, k, last, rows, drawn) ==
    IF k > last \/ w.err # "none"
    THEN [walker |-> w, rng |-> r, rows |-> rows, draws |-> drawn]
    ELSE LoopFrom(IterationRun(w, r), r, k, last, rows, drawn)

\* lines 260-271 of sample: the table of the rows written
SampleClose(run, nn) ==
    [walker |->
        IF run.walker.err # "none"
        THEN [run.walker EXCEPT !.calls = Append(@, nn), !.draws = @ \o run.draws]
        ELSE IF nn = 0
        THEN [run.walker EXCEPT !.calls = Append(@, nn), !.draws = @ \o run.draws,
                                !.err = "ZeroDivisionError"]
        ELSE [run.walker EXCEPT !.calls = Append(@, nn), !.draws = @ \o run.draws,
                                !.tables =
                                    Append(@, [k \in 1..Len(run.rows) |->
                                                  Fluxes(run.walker.model, run.rows[k])])],
     rng |-> run.rng]

\* sample(nn) with the generator in state r: the instance with the table
\* appended to those it has returned, and the generator state
SampleRun(w, nn, r) ==
    SampleClose(LoopRun(w, r, 1, w.thinning * nn, <<>>, <<>>), nn)

\* the instance MCMCACHRSampler(model, thinning, nproj, seed) builds
NewWalker(raw, thin, np, seed) ==
    LET prob == build_problem(raw)
        warm == FilterWarmup(raw.rows, prob.homogeneous)
    IN  [built |-> TRUE, seed |-> seed % Int32Max, problem |-> prob,
         model |-> ModelOf(raw, {raw.rows[k] : k \in 1..Len(raw.rows)}),
         warmup |-> warm.warmup, n_warmup |-> warm.n_warmup,
         center |-> Mean(warm.warmup), prev |-> Mean(warm.warmup),
         n_samples |-> 0, retries |-> 0, thinning |-> thin, nproj |-> np,
         bestSample |-> None, err |-> warm.err,
         calls |-> <<>>, tables |-> <<>>, draws |-> <<>>]

NoWalker == [built |-> FALSE]

\* the generator and the instance w after an operation whose result on the
\* generator of the process is res, and on a generator of its own is own
PairAfter(w, res, own) ==
    /\ walkers' = [walkers EXCEPT ![w] = res.walker]
    /\ rng' = res.rng
    /\ alone' = [alone EXCEPT ![w] = own]

\* MCMCACHRSampler.__init__: the instance, and the seeding of the generator
PairConstruct ==
    /\ pc = "pair"
    /\ \E w \in Walkers, seed \in 0..MaxSeed :
          /\ ~walkers[w].built
          /\ PairAfter(w, [walker |-> NewWalker(Line, 1, MaxNproj, seed),
                           rng |-> RngSeed(seed)],
                       [walker |-> NewWalker(Line, 1, MaxNproj, seed),
                        rng |-> RngSeed(seed)])
    /\ UNCHANGED <<samplerVars, pc, err, stepVars, callVars, retries0, histVars,
                   fvaVars, validateVars, filterVars, searchVars>>

\* one call sample(nn) on an instance
PairSample ==
    /\ pc = "pair"
    /\ \E w \in Walkers, nn \in 0..MaxPairN :
          /\ walkers[w].built
          /\ walkers[w].err = "none"
          /\ Len(walkers[w].calls) < MaxCalls
          /\ PairAfter(w, SampleRun(walkers[w], nn, rng),
                       SampleRun(alone[w].walker, nn, alone[w].rng))
    /\ UNCHANGED <<samplerVars, pc, err, stepVars, callVars, retries0, histVars,
                   fvaVars, validateVars, filterVars, searchVars>>

InitPair ==
    /\ problem = build_problem(Line)
    /\ model = ModelOf(Line, {Line.rows[k] : k \in 1..Len(Line.rows)})
    /\ warmup = None
    /\ n_warmup = 0
    /\ center = None
    /\ prev = None
    /\ n_samples = 0
    /\ retries = 0
    /\ thinning = 1
    /\ nproj = MaxNproj
    /\ bestSample = None
    /\ pc = "pair"
    /\ err = "none"
    /\ rng \in 0..(RngMod - 1)
    /\ walkers = [w \in Walkers |-> NoWalker]
    /\ alone = [w \in Walkers |-> [walker |-> NoWalker, rng |-> 0]]
    /\ validatecheck = FALSE
    /\ IdleStep
    /\ IdleCall
    /\ IdleFva
    /\ IdleValidate
    /\ IdleRedundant
    /\ IdleSearch

NextPair == PairConstruct \/ PairSample

SpecPair == InitPair /\ [][NextPair]_vars

(***************************************************************************)
(* SpecRedundant: the redundancy removal of generate_fva_warmup, lines     *)
(* 348-351, applied to MaxRows distinct rows as they are given and as      *)
(* reordered.  The rows are points within the variable bounds of the       *)
(* models with one reaction.                                               *)
(***************************************************************************)
RowPoints == {q \in (0..MaxFlux) \X (0..MaxFlux) : q[1] % 2 = 0 /\ q[2] % 2 = 0}

Orders(m) == {f \in [1..m -> 1..m] : \A a, c \in 1..m : f[a] = f[c] => a = c}

Permuted(rows, ord) == [r \in 1..Len(rows) |-> rows[ord[r]]]

RowSet(rows) == {rows[r] : r \in 1..Len(rows)}

RemoveRedundant ==
    /\ pc = "filter"
    /\ kept' = RowSet(KeptRows(collected))
    /\ keptPermuted' = RowSet(KeptRows(Permuted(collected, order)))
    /\ pc' = "filtered"
    /\ UNCHANGED <<samplerVars, err, stepVars, callVars, retries0, histVars, fvaVars,
                   validateVars, collected, order, searchVars, pairVars>>

InitRedundant ==
    /\ problem = build_problem(Line)
    /\ model = ModelOf(Line, {})
    /\ warmup = None
    /\ n_warmup = 0
    /\ center = None
    /\ prev = None
    /\ n_samples = 0
    /\ retries = 0
    /\ thinning = 1
    /\ nproj = 1
    /\ bestSample = None
    /\ pc = "filter"
    /\ err = "none"
    /\ collected \in {m \in [1..MaxRows -> RowPoints] :
                       \A a, c \in 1..MaxRows : m[a] = m[c] => a = c}
    /\ order \in Orders(MaxRows)
    /\ kept = None
    /\ keptPermuted = None
    /\ IdleStep
    /\ IdleCall
    /\ IdleFva
    /\ IdleValidate
    /\ validatecheck = FALSE
    /\ IdleSearch
    /\ IdlePair

NextRedundant == RemoveRedundant

SpecRedundant == InitRedundant /\ [][NextRedundant]_vars

(***************************************************************************)
(* The properties.                                                         *)
(***************************************************************************)
\* C1: every point step returns has every variable within its bounds widened
\* by bounds_tol, and every inequality row value within the bounds of the row
\* widened by bounds_tol, whatever the feasible x, the direction delta and
\* the number of retries.
C1_StepWithinBounds ==
    pc = "stepped" =>
        /\ \A k \in 1..Len(p) :
              /\ p[k] >= problem.variable_bounds[1][k] - bounds_tol
              /\ p[k] <= problem.variable_bounds[2][k] + bounds_tol
        /\ \A r \in 1..Len(problem.inequalities) :
              /\ Dot(problem.inequalities[r], p) >= problem.bounds[1][r] - bounds_tol
              /\ Dot(problem.inequalities[r], p) <= problem.bounds[2][r] + bounds_tol

\* step has returned a point that is beyond an upper bound, within bounds_tol
C1_Witness == pc = "stepped" /\ p[1] = MaxFlux + bounds_tol

\* C2: one call of step absorbs at most MAX_TRIES failures: the counter
\* retries grows by at most MAX_TRIES while the call runs.
C2_AbsorbsAtMostMaxTries == retries - retries0 <= MAX_TRIES

\* C3: in a call with a likelihood or a prior, every iteration after the
\* first is accepted exactly when log(u) < newPosterior - previousPosterior.
C3_LaterIterationsTested ==
    (decision # None /\ decision[1].iteration > 1) =>
        (decision[1].accepted <=> decision[1].test)

\* C4: once the sampler has accepted a sample, bestSample is an accepted
\* sample and no accepted sample has a greater posterior.
C4_BestSampleIsBestAccepted ==
    accepted # {} =>
        /\ bestSample # None
        /\ bestSample \in accepted
        /\ \A a \in accepted : bestSample[1] >= a[1]

\* C5: while a call of sample that was given a likelihood or a prior runs,
\* no step of the program changes center.
C5_CenterLocked ==
    [][((likelihood # "None" \/ prior # "None") /\ pc \in {"iterate", "step", "stepped"})
          => center' = center]_vars

\* a call with a scorer ends after two iterations, one of them rejected
C5_Witness ==
    /\ pc = "report"
    /\ likelihood # "None"
    /\ totalSamples >= 2
    /\ rejections >= 1

\* C6: sample(n) with n >= 1 makes thinning * n iterations and returns n
\* rows; row k is prev at the end of iteration k * thinning (its fluxes when
\* fluxes are asked for); with a scorer, prev at the end of an iteration is
\* the point accepted last, a rejected iteration leaves prev as the iteration
\* before left it, and rejections counts the rejected iterations.
C6_RowsAndIterations ==
    /\ (pc = "returned" /\ n >= 1) =>
          /\ totalSamples = thinning * n
          /\ Len(hist) = thinning * n
          /\ Len(samples) = n
          /\ Len(table) = n
          /\ \A k \in 1..n :
                /\ samples[k] = hist[k * thinning].prev
                /\ table[k] = IF fluxes THEN Fluxes(model, hist[k * thinning].prev)
                              ELSE hist[k * thinning].prev
    /\ (lockCenter /\ hist # <<>>) =>
          /\ hist[Len(hist)].prev = lastAccepted
          /\ prev = lastAccepted
          /\ rejections = Cardinality({k \in 1..Len(hist) : ~hist[k].accepted})
          /\ \A k \in 2..Len(hist) :
                ~hist[k].accepted => hist[k].prev = hist[k - 1].prev

\* a call with a scorer has returned two rows, the second one after a
\* rejected iteration
C6_Witness ==
    /\ pc = "returned"
    /\ lockCenter
    /\ n = 2
    /\ ~hist[2].accepted

\* C7: in a call without likelihood and prior no iteration is rejected, prev
\* and center after every iteration are what __single_iteration and the
\* running mean produce, and the acceptance rate reported is 1.
C7_UnlockedIsPlain ==
    (likelihood = "None" /\ prior = "None") =>
        /\ rejections = 0
        /\ hist # <<>> =>
              /\ prev = iterPrev
              /\ center = iterCenter
              /\ hist[Len(hist)].accepted
        /\ pc = "returned" =>
              /\ rate[2] > 0
              /\ rate[1] = rate[2]

\* a call without scorers has returned after two iterations that moved the
\* center
C7_Witness ==
    /\ pc = "returned"
    /\ likelihood = "None"
    /\ prior = "None"
    /\ totalSamples = 2
    /\ center # Mean(warmup)

C9_CodeNeverEmpty ==
    pc = "validated" => \A k \in 1..Len(codes) : Len(codes[k]) \in 1..3

\* C10: when generate_fva_warmup returns, the warmup set has at least 3 rows
\* and n_warmup is their number.
C10_ReturnsThreeRows ==
    pc = "warmed" => (Len(warmup) >= 3 /\ n_warmup = Len(warmup))

\* C11: redundancy removal retains the same set of rows whatever the order
\* the rows are handed over in.
C11_OrderIndependent == pc = "filtered" => kept = keptPermuted

\* C12: a problem whose equality right-hand side is not zero, or that has a
\* fixed variable with a non-zero bound, is built with homogeneous = False,
\* and on it no iteration of any sample call reprojects: prev is the point
\* step returned and center is updated from the center as it was.
C12_NoReprojection ==
    /\ []((\/ \E r \in 1..Len(problem.b) : Abs(problem.b[r]) >= feasibility_tol
           \/ \E k \in 1..Len(problem.variable_fixed) :
                 /\ problem.variable_fixed[k]
                 /\ Abs(problem.variable_bounds[2][k]) > feasibility_tol)
          => /\ ~problem.homogeneous
             /\ \A k \in 1..Len(hist) :
                   ~hist[k].reprojected /\ ~hist[k].centerReprojected)
    /\ [][(~problem.homogeneous /\ pc = "stepped")
            => /\ iterPrev' = p
               /\ center' = CenterAfter(lockCenter, n_samples, center, p)]_vars

\* a call without scorers on the problem with the fixed variable has made
\* two iterations, the first of them at a multiple of nproj
C12_Witness ==
    /\ \E k \in 1..Len(problem.variable_fixed) :
          problem.variable_fixed[k] /\ problem.variable_bounds[2][k] = 2
    /\ ~lockCenter
    /\ Len(hist) = 2
    /\ hist[1].ns % nproj = 0

\* C13: on a homogeneous problem an iteration reprojects prev exactly when
\* the number of iterations made before it is a multiple of nproj, whatever
\* the thinning factor, and reprojects center in the same iterations unless
\* the center is locked.
C13_EveryNproj ==
    problem.homogeneous =>
        \A k \in 1..Len(hist) :
            /\ hist[k].reprojected <=> (hist[k].ns % nproj = 0)
            /\ hist[k].centerReprojected <=> (hist[k].ns % nproj = 0 /\ ~lockCenter)

\* C16: no step of the program lowers n_samples or retries; n_samples is
\* raised by 1 by every completed iteration, accepted or rejected, and by
\* nothing else, so by thinning * n in a call sample(n); retries is raised by
\* 1 by every failure of step that is retried, and by nothing else.
C16_CountersGrow ==
    /\ [](n_samples = n_samples0 + Len(hist))
    /\ []((pc = "returned" /\ n >= 1) => n_samples = n_samples0 + thinning * n)
    /\ [][/\ n_samples' >= n_samples
          /\ retries' >= retries
          /\ (pc = "stepped" /\ pc' # "stepped") <=> (n_samples' = n_samples + 1)
          /\ n_samples' # n_samples => n_samples' = n_samples + 1
          /\ (pc = "step" /\ tries' = tries + 1) <=> (retries' = retries + 1)
          /\ retries' # retries => retries' = retries + 1]_vars

\* a call with a scorer has returned after a rejected iteration and a
\* retried step
C16_Witness ==
    /\ pc = "returned"
    /\ lockCenter
    /\ rejections >= 1
    /\ retries >= 1
    /\ n_samples = 2

\* C19: on a problem that is not reprojected, the weight n_samples an
\* unlocked iteration gives the old center is the number of points that
\* have been averaged into the center.
C19_WeightIsCount ==
    (~problem.homogeneous /\ ~lockCenter /\ pc = "stepped") => n_samples = averaged

\* C17: at every invocation of the optimizer during warmup generation the
\* only non-zero coefficients of the objective are those of the forward and
\* the reverse variable of the reaction being optimized.
C17_SingleReactionObjective ==
    \A s \in solved :
        \A k \in 1..Len(s.objective) :
            s.objective[k] # 0 =>
                k \in {fwd_idx(model)[s.reaction], rev_idx(model)[s.reaction]}

\* C18: called with a fraction f, 0 and 1 included, step uses
\* alpha = lo + f * (hi - lo) on the feasible interval [lo, hi] of alpha and
\* draws nothing: the point it returns without a retry is x + alpha * delta.
C18_FractionInterpolates ==
    (pc = "stepped" /\ tries = 0 /\ fraction # None) =>
        LET range == AlphaRange(problem, x, delta)
            alpha == range[1] + Quot(fraction[1] * (range[2] - range[1]), SCALE)
        IN  p = Candidate(x, alpha, delta)

\* C20: with validatecheck every step of an iteration starts from the prev
\* held at the start of the iteration (prev is not assigned before the
\* search has ended), an iteration re-steps at most nmax times, and the
\* candidate the iteration assigns to prev has the code "v".
C20_SearchFromPrevious ==
    /\ (validatecheck /\ pc = "step" /\ tries = 0) => x = prev
    /\ counter <= nmax
    /\ (validatecheck /\ pc = "checked") => SearchCode(problem, p) = <<"v">>

\* C14: two samplers built from the same model with the same seed and given
\* the same sequence of sample calls have drawn the same random values,
\* returned the same tables and have the same prev, center, n_samples and
\* retries.
C14_SameSeedSameRun ==
    (/\ pc = "pair"
     /\ walkers[1].built
     /\ walkers[2].built
     /\ walkers[1].seed = walkers[2].seed
     /\ walkers[1].calls = walkers[2].calls) => walkers[1] = walkers[2]

\* C15: whatever the other instance has done, the draws, the state and the
\* tables of an instance are those it would have if it were alone.
C15_WalkersIndependent ==
    pc = "pair" => \A w \in Walkers : walkers[w] = alone[w].walker

\* C21: an iteration that reprojects leaves in prev the stepped point itself
\* when its equality residuals are within feasibility_tol, and in every case a
\* point whose equality residuals are within feasibility_tol; the warmup rows
\* satisfy the equalities within feasibility_tol.
C21_ReprojectFeasible ==
    /\ [](pc \in {"idle", "iterate", "step", "stepped", "report", "returned"} =>
            \A r \in 1..n_warmup : AllClose(problem, warmup[r]))
    /\ [][(/\ pc = "stepped"
           /\ pc' \in {"iterate", "report"}
           /\ ReprojectNow(problem, n_samples, thinning, nproj)) =>
             /\ AllClose(problem, p) => iterPrev' = p
             /\ AllClose(problem, iterPrev')]_vars

\* an iteration has replaced a stepped point that violates the equalities by
\* a random point that satisfies them
C21_Witness ==
    /\ pc \in {"iterate", "report"}
    /\ hist # <<>>
    /\ hist[Len(hist)].reprojected
    /\ ~AllClose(problem, hist[Len(hist)].stepped)
    /\ iterPrev # hist[Len(hist)].stepped
    /\ AllClose(problem, iterPrev)

\* C22: when a sample call ends in the RuntimeError of step or in the exit of
\* the validity search, n_samples counts the completed iterations, prev is the
\* prev the last completed iteration left after its acceptance or rollback,
\* and the retries made are counted; from the end of an iteration on, no step
\* of the iteration that follows changes prev, center, n_samples or bestSample
\* before that iteration completes.
C22_NoPartialUpdate ==
    /\ []((pc \in {"raised", "exited"} /\ err \in {"RuntimeError", "SystemExit"}) =>
            /\ n_samples = n_samples0 + Len(hist)
            /\ hist # <<>> => prev = hist[Len(hist)].prev
            /\ retries >= retries0
            /\ err = "RuntimeError" => retries = retries0 + MAX_TRIES + 1)
    /\ [][(pc \in {"iterate", "step", "stepped", "checked"}
           /\ pc' \notin {"iterate", "report"}) =>
             UNCHANGED <<prev, center, n_samples, bestSample>>]_vars

\* step has raised in an iteration that follows a completed one
C22_Witness ==
    /\ pc = "raised"
    /\ err = "RuntimeError"
    /\ hist # <<>>
    /\ retries > retries0

====
